---- MODULE Spec2Model ----
(***************************************************************************)
(* RedditDownloader (bdfr/downloader.py): the run loop download() and the  *)
(* per-submission pipeline _download_submission(), as a state machine.     *)
(*                                                                         *)
(* One behaviour is one run (or, under SpecTwoRuns, two runs over the same *)
(* input and the same filesystem).  The configuration, the submission      *)
(* sequences and the environment's answers (which fetch, write or link     *)
(* fails, which path exists beforehand) are chosen in Init and stay fixed, *)
(* so that a second run meets the same environment as the first.  A run    *)
(* has at most one fault: one failing pull, or one deviation `dev`.        *)
(* SpecFilter is _download_submission() alone, entered with one submission *)
(* for every setting of the filters and every value of its attributes.     *)
(***************************************************************************)
EXTENDS Integers, Sequences, FiniteSets, TLC

\* ---------------------------------------------------------------- bounds
MaxSubs == 3        \* submissions the remote platform offers in one run
MaxGens == 2        \* generators in self.reddit_lists
MaxScore == 1       \* scores and score limits range over -MaxScore .. MaxScore

\* ------------------------------------------------------ program constants
Cooldown == 60      \* sleep(60)
NoValue == 0        \* Python None (hash not yet known, unbound loop variable)

VARIABLES
    args,               \* self.args: the deduplication flags and the filter settings
    attrs,              \* the attributes of each submission the platform offers
    reddit_lists,       \* self.reddit_lists: sequence of generators (item sequences)
    dev,                \* the environment's one deviation from the plain case
    pc,                 \* position of download() in its code
    run,                \* 1 or 2: which call of download() this is
    gi,                 \* index of the generator the outer for loop is at
    pos,                \* items the current generator's iterator has consumed
    submission,         \* the loop variable `submission` (NoValue: unbound)
    ri,                 \* index of the (destination, res) pair being handled
    fs,                 \* filesystem: path -> file record
    fs0,                \* the filesystem as it was when the current run began
    master_hash_list,   \* self.master_hash_list: hash -> destination (in-run)
    url_list,           \* UrlIndex: url -> hash or NoValue
    hash_store,         \* persisted hash store (keep_hashes / keep_hashes_db)
    decision,           \* the dedup decision taken for the last fetched resource
    log                 \* every observable event so far, in order

vars == << args, attrs, reddit_lists, dev, pc, run, gi, pos, submission, ri, fs, fs0,
           master_hash_list, url_list, hash_store, decision, log >>

\* -------------------------------------------------------------- input data
Subs == 1 .. MaxSubs

Res(u, d, h) == [url |-> u, dest |-> d, hash |-> h]

\* What downloader.find_resources() and format_resource_paths() yield for a
\* submission: the (destination, resource) pairs, each with the hash its
\* bytes will have.  Submissions 1, 4, .. carry two resources of equal
\* content; 2, 5, .. a duplicate of that content and a different one;
\* 3, 6, .. a resource with the URL of submission 1's first resource.
format_resource_paths(s) ==
    CASE s % 3 = 1 -> << Res(10 * s + 1, 10 * s + 1, 1), Res(10 * s + 2, 10 * s + 2, 1) >>
      [] s % 3 = 2 -> << Res(10 * s + 1, 10 * s + 1, 1), Res(10 * s + 2, 10 * s + 2, 2) >>
      [] OTHER     -> << Res(11, 10 * s + 1, 1) >>

Slots == { sl \in Subs \X (1 .. 2) : sl[2] <= Len(format_resource_paths(sl[1])) }

OldPath == 1        \* a file left on disk by an earlier run, content hash 1

Paths == { OldPath } \cup { format_resource_paths(sl[1])[sl[2]].dest : sl \in Slots }

Absent == [kind |-> "absent", hash |-> NoValue, target |-> NoValue]
FullFile(h) == [kind |-> "file", hash |-> h, target |-> NoValue]
PartialFile == [kind |-> "partial", hash |-> NoValue, target |-> NoValue]
LinkFile(h, t) == [kind |-> "link", hash |-> h, target |-> t]

\* ---------------------------------------------------- the submission source
SubItem(s) == [kind |-> "sub", id |-> s]
ErrItem(k) == [kind |-> k, id |-> NoValue]

\* The cut points that spread submissions 1..MaxSubs, in order, over MaxGens
\* generators (a generator may be empty).
Cuts ==
    { c \in [0 .. MaxGens -> 0 .. MaxSubs] :
        /\ c[0] = 0
        /\ c[MaxGens] = MaxSubs
        /\ \A g \in 1 .. MaxGens : c[g - 1] <= c[g] }

ListsOf(c) ==
    [g \in 1 .. MaxGens |-> [k \in 1 .. (c[g] - c[g - 1]) |-> SubItem(c[g - 1] + k)]]

InsertAt(seq, p, item) == SubSeq(seq, 1, p - 1) \o << item >> \o SubSeq(seq, p, Len(seq))

\* At most one pull of one generator raises: a PRAW error or another error.
SeqErrors(lists) ==
    { [g |-> 0, p |-> 0, kind |-> "none"] } \cup
    { [g |-> g, p |-> p, kind |-> k] :
        g \in 1 .. MaxGens, p \in 1 .. (MaxSubs + 1), k \in { "praw", "other" } }

WithError(lists, e) ==
    IF e.kind = "none" \/ e.p > Len(lists[e.g]) + 1
    THEN lists
    ELSE [lists EXCEPT ![e.g] = InsertAt(lists[e.g], e.p, ErrItem(e.kind))]

\* ------------------------------------------------------------- environment
NoDev == [kind |-> "none", s |-> 0, i |-> 0]

ResDevKinds == { "fetch_fail", "write_fail_nofile", "write_fail_partial",
                 "dest_exists", "res_filtered" }
\* One submission that a branch of the filter chain turns away.
FilterDevKinds == { "excluded", "skip_subreddit", "ignored_user", "deleted_user",
                    "low_score", "high_score", "bad_ratio", "not_submission",
                    "url_filtered", "empty_url" }
SubDevKinds == FilterDevKinds \cup
               { "praw_error", "other_error", "not_downloadable",
                 "module_disabled", "site_error" }

Deviations(a) ==
    { NoDev } \cup
    { [kind |-> k, s |-> sl[1], i |-> sl[2]] : k \in ResDevKinds, sl \in Slots } \cup
    { [kind |-> k, s |-> s, i |-> 0] : k \in SubDevKinds, s \in Subs } \cup
    { [kind |-> "link_fail", s |-> 0, i |-> 0] } \cup
    (IF a.keep_hashes \/ a.keep_hashes_db
     THEN { [kind |-> k, s |-> 0, i |-> 0] : k \in { "store_loaded", "list_loaded" } }
     ELSE {})

DevAt(k, s, i) == dev.kind = k /\ dev.s = s /\ dev.i = i

\* ------------------------------------------------------------ filter chain
NoAuthor == ""      \* submission.author is None (deleted account)

Lower(name) ==
    CASE name = "Pics" -> "pics"
      [] name = "News" -> "news"
      [] OTHER -> name

\* An optional integer setting: None, or a configured value.  Python
\* truthiness: None and 0 are both false.
None == [set |-> FALSE, val |-> 0]
Some(v) == [set |-> TRUE, val |-> v]
Truthy(o) == o.set /\ o.val # 0

\* The attributes of submission s that the filter chain reads.
SubmissionOf(s) == attrs[s]

\* The chain of elif branches of _download_submission followed by the empty
\* URL test: the reason of the first branch that returns, or "pass".
\* `self.args.min_score and ...`: a limit of None or 0 switches its test off.
FilterChain(fa, sub) ==
    IF sub.id \in fa.excluded_submission_ids THEN "excluded_id"
    ELSE IF Lower(sub.subreddit) \in fa.skip_subreddit THEN "skip_subreddit"
    ELSE IF \/ (sub.author # NoAuthor /\ sub.author \in fa.ignore_user)
            \/ (sub.author = NoAuthor /\ "DELETED" \in fa.ignore_user)
         THEN "ignored_user"
    ELSE IF Truthy(fa.min_score) /\ sub.score < fa.min_score.val THEN "min_score"
    ELSE IF Truthy(fa.max_score) /\ fa.max_score.val < sub.score THEN "max_score"
    ELSE IF \/ (Truthy(fa.min_score_ratio) /\ sub.upvote_ratio < fa.min_score_ratio.val)
            \/ (Truthy(fa.max_score_ratio) /\ fa.max_score_ratio.val < sub.upvote_ratio)
         THEN "score_ratio"
    ELSE IF ~sub.is_submission THEN "not_submission"
    ELSE IF ~sub.url_ok THEN "url_filter"
    ELSE IF sub.url = "" THEN "empty_url"
    ELSE "pass"

\* The filter settings of a run with deviation d: the setting that turns the
\* deviating submission away, every other one unset.
filter_args(d) ==
    [excluded_submission_ids |-> IF d.kind = "excluded" THEN { d.s } ELSE {},
     skip_subreddit |-> IF d.kind = "skip_subreddit" THEN { "pics" } ELSE {},
     ignore_user |-> IF d.kind = "ignored_user" THEN { "alice" }
                     ELSE IF d.kind = "deleted_user" THEN { "DELETED" } ELSE {},
     min_score |-> IF d.kind = "low_score" THEN Some(5) ELSE None,
     max_score |-> IF d.kind = "high_score" THEN Some(20) ELSE None,
     min_score_ratio |-> IF d.kind = "bad_ratio" THEN Some(50) ELSE None,
     max_score_ratio |-> None]

\* What the platform reports for each submission: the deviating one has the
\* attribute its branch of the chain tests, the others pass every test.
PlainSubmission(s) ==
    [id |-> s, subreddit |-> "News", author |-> "bob", score |-> 10,
     upvote_ratio |-> 95, is_submission |-> TRUE, url_ok |-> TRUE, url |-> "x"]

DeviatingSubmission(d) ==
    LET p == PlainSubmission(d.s) IN
    CASE d.kind = "skip_subreddit" -> [p EXCEPT !.subreddit = "Pics"]
      [] d.kind = "ignored_user" -> [p EXCEPT !.author = "alice"]
      [] d.kind = "deleted_user" -> [p EXCEPT !.author = NoAuthor]
      [] d.kind = "low_score" -> [p EXCEPT !.score = 3]
      [] d.kind = "high_score" -> [p EXCEPT !.score = 30]
      [] d.kind = "bad_ratio" -> [p EXCEPT !.upvote_ratio = 40]
      [] d.kind = "not_submission" -> [p EXCEPT !.is_submission = FALSE]
      [] d.kind = "url_filtered" -> [p EXCEPT !.url_ok = FALSE]
      [] d.kind = "empty_url" -> [p EXCEPT !.url = ""]
      [] OTHER -> p

SubmissionsOf(d) ==
    [s \in Subs |-> IF s = d.s /\ d.i = 0 THEN DeviatingSubmission(d)
                    ELSE PlainSubmission(s)]

\* ----------------------------------------------------------- dedup indexes
EmptyMap == << >>

KeepMode(a) == a.keep_hashes \/ a.keep_hashes_db

\* self._check_url_exists_or_add(url, hash): TRUE when the URL is known;
\* otherwise the URL is added.  A known URL without a hash takes the hash.
check_url_exists(ul, url) == url \in DOMAIN ul

url_add(ul, url, h) ==
    IF url \notin DOMAIN ul THEN (url :> h) @@ ul
    ELSE IF ul[url] = NoValue THEN [ul EXCEPT ![url] = h]
    ELSE ul

\* self._check_hash_exists_or_add(destination, hash) on the persisted store:
\* TRUE when the hash is recorded; a new hash is recorded against a
\* destination once there is one.
check_hash_exists(store, h) == h \in DOMAIN store

hash_add(store, d, h) ==
    IF h \in DOMAIN store \/ d = NoValue THEN store ELSE (h :> d) @@ store

\* self._get_hashed_item(hash): the canonical file of a recorded hash.
get_hashed_item(a, store, mhl, h) == IF KeepMode(a) THEN store[h] ELSE mhl[h]

\* The condition of the `if` that opens the duplicate branch.
IsDuplicate(a, store, mhl, h) ==
    \/ (KeepMode(a) /\ check_hash_exists(store, h))
    \/ (~KeepMode(a) /\ h \in DOMAIN mhl)

DupAction_ignores_no_dupes(a) ==
    IF a.make_hard_links THEN "link" ELSE "write"

DupAction_links_first(a) ==
    IF a.make_hard_links THEN "link"
    ELSE IF a.no_dupes THEN "skip"
    ELSE "write"

\* What the duplicate branch does: no_dupes returns, else make_hard_links
\* links and returns, else control falls through to the write.
DupAction(a) ==
    IF a.no_dupes THEN "skip"
    ELSE IF a.make_hard_links THEN "link"
    ELSE "write"

\* The in-run index after a successful write: the hash now maps to this
\* destination, whatever it mapped to before.
master_hash_list_set(mhl, h, d) == (h :> d) @@ mhl

\* ------------------------------------------------------------------- Init
NoDecision ==
    [s |-> 0, i |-> 0, run |-> 0, hash |-> NoValue, in_store |-> FALSE,
     in_run |-> FALSE, act |-> "none", done |-> FALSE]

InitFs ==
    [p \in Paths |->
        IF p = OldPath THEN FullFile(1)
        ELSE IF /\ dev.kind = "dest_exists"
                /\ format_resource_paths(dev.s)[dev.i].dest = p
             THEN FullFile(format_resource_paths(dev.s)[dev.i].hash)
             ELSE Absent]

\* The indexes when download() is entered: the in-run maps are empty; in a
\* persisted mode the store, or the list, may hold a hash of an earlier run.
InitIndexes ==
    /\ master_hash_list = IF dev.kind = "list_loaded" THEN (1 :> OldPath) ELSE EmptyMap
    /\ hash_store = IF dev.kind = "store_loaded" THEN (1 :> OldPath) ELSE EmptyMap
    /\ url_list = EmptyMap

Flags == [keep_hashes : BOOLEAN, keep_hashes_db : BOOLEAN,
          no_dupes : BOOLEAN, make_hard_links : BOOLEAN]

Init ==
    /\ \E fl \in Flags : \E c \in Cuts : \E e \in SeqErrors(ListsOf(c)) :
           /\ reddit_lists = WithError(ListsOf(c), e)
           /\ dev \in IF reddit_lists = ListsOf(c) THEN Deviations(fl) ELSE { NoDev }
           /\ args = fl @@ filter_args(dev)
           /\ attrs = SubmissionsOf(dev)
    /\ pc = "next_gen"
    /\ run = 1
    /\ gi = 0
    /\ pos = 0
    /\ submission = NoValue
    /\ ri = 0
    /\ fs = InitFs
    /\ fs0 = fs
    /\ InitIndexes
    /\ decision = NoDecision
    /\ log = << >>

\* ---------------------------------------------------------------- events
Ev(op, s, i, d, h, tgt, cause) ==
    [op |-> op, run |-> run, gen |-> gi, s |-> s, i |-> i, dest |-> d,
     hash |-> h, target |-> tgt, cause |-> cause]

SubEv(op, cause) == Ev(op, submission, 0, NoValue, NoValue, NoValue, cause)

Resources == format_resource_paths(submission)
CurRes == Resources[ri]
ResEv(op, tgt, cause) == Ev(op, submission, ri, CurRes.dest, CurRes.hash, tgt, cause)

\* ------------------------------------------------------------- download()
\* for generator in self.reddit_lists: the next generator, or the end of the
\* outer loop.
NextGen ==
    /\ pc = "next_gen"
    /\ IF gi < Len(reddit_lists)
       THEN gi' = gi + 1 /\ pos' = 0 /\ pc' = "pull"
       ELSE pc' = "save" /\ UNCHANGED << gi, pos >>
    /\ UNCHANGED << args, attrs, reddit_lists, dev, run, submission, ri, fs, fs0,
                    master_hash_list, url_list, hash_store, decision, log >>

HasNext == pos < Len(reddit_lists[gi])
NextItem == reddit_lists[gi][pos + 1]

\* for submission in generator: the iterator yields a submission.
PullSubmission ==
    /\ pc = "pull" /\ HasNext /\ NextItem.kind = "sub"
    /\ submission' = NextItem.id
    /\ pos' = pos + 1
    /\ pc' = "process"
    /\ UNCHANGED << args, attrs, reddit_lists, dev, run, gi, ri, fs, fs0,
                    master_hash_list, url_list, hash_store, decision, log >>

\* The iterator is exhausted: the inner loop ends normally.
PullStop ==
    /\ pc = "pull" /\ ~HasNext
    /\ pc' = "next_gen"
    /\ UNCHANGED << args, attrs, reddit_lists, dev, run, gi, pos, submission, ri, fs, fs0,
                    master_hash_list, url_list, hash_store, decision, log >>

\* The pull raises a PRAW error: control leaves the inner for loop for the
\* handler of the inner try.  The iterator itself has only lost that pull.
PullPrawError ==
    /\ pc = "pull" /\ HasNext /\ NextItem.kind = "praw"
    /\ pos' = pos + 1
    /\ pc' = "handler"
    /\ log' = Append(log, Ev("pull_praw_error", NoValue, pos + 1, NoValue, NoValue, NoValue, "praw"))
    /\ UNCHANGED << args, attrs, reddit_lists, dev, run, gi, submission, ri, fs, fs0,
                    master_hash_list, url_list, hash_store, decision >>

\* The pull raises any other exception: only the outermost handler takes it.
PullOtherError ==
    /\ pc = "pull" /\ HasNext /\ NextItem.kind = "other"
    /\ pos' = pos + 1
    /\ pc' = "uncaught"
    /\ log' = Append(log, Ev("raise", NoValue, pos + 1, NoValue, NoValue, NoValue, "iteration_error"))
    /\ UNCHANGED << args, attrs, reddit_lists, dev, run, gi, submission, ri, fs, fs0,
                    master_hash_list, url_list, hash_store, decision >>

\* except (PrawcoreException, PRAWException) of the inner try: the message
\* reads submission.id, which raises NameError while no submission has been
\* bound in this call; otherwise the error is logged and sleep(60) follows,
\* and the outer for loop goes on with the next generator.
SequenceErrorHandler ==
    /\ pc = "handler"
    /\ IF submission = NoValue
       THEN /\ pc' = "uncaught"
            /\ log' = Append(log, Ev("raise", NoValue, pos, NoValue, NoValue, NoValue, "NameError"))
       ELSE /\ pc' = "next_gen"
            /\ log' = log \o << Ev("log_sequence_error", submission, pos, NoValue, NoValue, NoValue, "praw"),
                                Ev("sleep", submission, pos, NoValue, NoValue, Cooldown, "praw") >>
    /\ UNCHANGED << args, attrs, reddit_lists, dev, run, gi, pos, submission, ri, fs, fs0,
                    master_hash_list, url_list, hash_store, decision >>

UncaughtHandler_propagates ==
    /\ pc = "uncaught"
    /\ pc' = "done"
    /\ log' = Append(log, Ev("log_uncaught", NoValue, 0, NoValue, NoValue, NoValue, "uncaught"))
    /\ UNCHANGED << args, attrs, reddit_lists, dev, run, gi, pos, submission, ri, fs, fs0,
                    master_hash_list, url_list, hash_store, decision >>

\* except Exception: the error is logged and the try statement is left.
UncaughtHandler ==
    /\ pc = "uncaught"
    /\ pc' = "save"
    /\ log' = Append(log, Ev("log_uncaught", NoValue, 0, NoValue, NoValue, NoValue, "uncaught"))
    /\ UNCHANGED << args, attrs, reddit_lists, dev, run, gi, pos, submission, ri, fs, fs0,
                    master_hash_list, url_list, hash_store, decision >>

\* self._hash_list_save(False), the last statement of download().
HashListSave ==
    /\ pc = "save"
    /\ pc' = "done"
    /\ log' = Append(log, Ev("save", NoValue, 0, NoValue, NoValue, NoValue, ""))
    /\ UNCHANGED << args, attrs, reddit_lists, dev, run, gi, pos, submission, ri, fs, fs0,
                    master_hash_list, url_list, hash_store, decision >>

\* ---------------------------------------------------- _download_submission()
\* A variant without the handler around the call: the error reaches the
\* handler around the for loop.
ProcessRaisesPraw_outer_handler ==
    /\ pc = "process" /\ DevAt("praw_error", submission, 0)
    /\ pc' = "handler"
    /\ log' = log \o << SubEv("process", ""), SubEv("log_submission_error", "praw") >>
    /\ UNCHANGED << args, attrs, reddit_lists, dev, run, gi, pos, submission, ri, fs, fs0,
                    master_hash_list, url_list, hash_store, decision >>

\* A PRAW error while the submission's attributes are read: the handler
\* around the call logs it and the inner for loop goes on.
ProcessRaisesPraw ==
    /\ pc = "process" /\ DevAt("praw_error", submission, 0)
    /\ pc' = "pull"
    /\ log' = log \o << SubEv("process", ""), SubEv("log_submission_error", "praw") >>
    /\ UNCHANGED << args, attrs, reddit_lists, dev, run, gi, pos, submission, ri, fs, fs0,
                    master_hash_list, url_list, hash_store, decision >>

\* Any other exception raised by the call passes both PRAW handlers.
ProcessRaisesOther ==
    /\ pc = "process" /\ DevAt("other_error", submission, 0)
    /\ pc' = "uncaught"
    /\ log' = log \o << SubEv("process", ""), SubEv("raise", "processing_error") >>
    /\ UNCHANGED << args, attrs, reddit_lists, dev, run, gi, pos, submission, ri, fs, fs0,
                    master_hash_list, url_list, hash_store, decision >>

Raises == DevAt("praw_error", submission, 0) \/ DevAt("other_error", submission, 0)

FilterResult == FilterChain(args, SubmissionOf(submission))

\* A variant that logs the skip and enters the resource loop all the same.
ProcessSkip_enumerates ==
    /\ pc = "process" /\ ~Raises /\ FilterResult # "pass"
    /\ pc' = "resource" /\ ri' = 1
    /\ log' = log \o << SubEv("process", ""), SubEv("skip", FilterResult) >>
    /\ UNCHANGED << args, attrs, reddit_lists, dev, run, gi, pos, submission, fs, fs0,
                    master_hash_list, url_list, hash_store, decision >>

\* A branch of the filter chain returns.
ProcessSkip ==
    /\ pc = "process" /\ ~Raises /\ FilterResult # "pass"
    /\ pc' = "pull"
    /\ log' = log \o << SubEv("process", ""), SubEv("skip", FilterResult) >>
    /\ UNCHANGED << args, attrs, reddit_lists, dev, run, gi, pos, submission, ri, fs, fs0,
                    master_hash_list, url_list, hash_store, decision >>

\* DownloadFactory.pull_lever raises NotADownloadableLinkError, the module is
\* disabled, or find_resources raises SiteDownloaderError: return.
Unresolved ==
    \/ DevAt("not_downloadable", submission, 0)
    \/ DevAt("module_disabled", submission, 0)
    \/ DevAt("site_error", submission, 0)

ProcessUnresolved ==
    /\ pc = "process" /\ ~Raises /\ FilterResult = "pass" /\ Unresolved
    /\ pc' = "pull"
    /\ log' = log \o << SubEv("process", ""), SubEv("unresolved", dev.kind) >>
    /\ UNCHANGED << args, attrs, reddit_lists, dev, run, gi, pos, submission, ri, fs, fs0,
                    master_hash_list, url_list, hash_store, decision >>

\* The resources are enumerated and the for loop over them is entered.
ProcessEnumerate ==
    /\ pc = "process" /\ ~Raises /\ FilterResult = "pass" /\ ~Unresolved
    /\ IF Len(Resources) = 0
       THEN pc' = "pull" /\ ri' = 0
       ELSE pc' = "resource" /\ ri' = 1
    /\ log' = Append(log, SubEv("process", ""))
    /\ UNCHANGED << args, attrs, reddit_lists, dev, run, gi, pos, submission, fs, fs0,
                    master_hash_list, url_list, hash_store, decision >>

\* `continue`, or the end of the loop body: the next pair if there is one.
Continue ==
    IF ri < Len(Resources)
    THEN pc' = "resource" /\ ri' = ri + 1
    ELSE pc' = "pull" /\ ri' = 0

\* `return` from _download_submission: back in the inner for loop.
Return == pc' = "pull" /\ ri' = 0

\* destination.exists()
destination_exists_never(f, d) == FALSE
destination_exists(f, d) == f[d].kind # "absent"

\* self.download_filter.check_resource(res)
check_resource == ~DevAt("res_filtered", submission, ri)

\* A variant that records the URL of the resource it passes over.
ResExists_records_url ==
    /\ pc = "resource" /\ destination_exists(fs, CurRes.dest)
    /\ Continue
    /\ url_list' = url_add(url_list, CurRes.url, NoValue)
    /\ log' = Append(log, ResEv("exists", NoValue, ""))
    /\ UNCHANGED << args, attrs, reddit_lists, dev, run, gi, pos, submission, fs, fs0,
                    master_hash_list, hash_store, decision >>

ResExists ==
    /\ pc = "resource" /\ destination_exists(fs, CurRes.dest)
    /\ Continue
    /\ log' = Append(log, ResEv("exists", NoValue, ""))
    /\ UNCHANGED << args, attrs, reddit_lists, dev, run, gi, pos, submission, fs, fs0,
                    master_hash_list, url_list, hash_store, decision >>

ResFiltered ==
    /\ pc = "resource" /\ ~destination_exists(fs, CurRes.dest) /\ ~check_resource
    /\ Continue
    /\ log' = Append(log, ResEv("res_filtered", NoValue, ""))
    /\ UNCHANGED << args, attrs, reddit_lists, dev, run, gi, pos, submission, fs, fs0,
                    master_hash_list, url_list, hash_store, decision >>

ResUrlSeen ==
    /\ pc = "resource" /\ ~destination_exists(fs, CurRes.dest) /\ check_resource
    /\ check_url_exists(url_list, CurRes.url)
    /\ Continue
    /\ log' = Append(log, ResEv("url_seen", NoValue, ""))
    /\ UNCHANGED << args, attrs, reddit_lists, dev, run, gi, pos, submission, fs, fs0,
                    master_hash_list, url_list, hash_store, decision >>

\* The three tests before the fetch have passed; the URL is in the UrlIndex
\* from here on.
ReachesFetch ==
    /\ pc = "resource" /\ ~destination_exists(fs, CurRes.dest) /\ check_resource
    /\ ~check_url_exists(url_list, CurRes.url)

\* A variant in which the lookup before the fetch does not add the URL.
UrlSeen_lookup_only == url_list
UrlSeen == url_add(url_list, CurRes.url, NoValue)
UrlHashed == url_add(UrlSeen, CurRes.url, CurRes.hash)

\* res.download() raises BulkDownloaderException: return.
ResFetchFail_continue ==
    /\ ReachesFetch /\ DevAt("fetch_fail", submission, ri)
    /\ Continue
    /\ url_list' = UrlSeen
    /\ log' = Append(log, ResEv("fetch_fail", NoValue, ""))
    /\ UNCHANGED << args, attrs, reddit_lists, dev, run, gi, pos, submission, fs, fs0,
                    master_hash_list, hash_store, decision >>

ResFetchFail ==
    /\ ReachesFetch /\ DevAt("fetch_fail", submission, ri)
    /\ Return
    /\ url_list' = UrlSeen
    /\ log' = Append(log, ResEv("fetch_fail", NoValue, ""))
    /\ UNCHANGED << args, attrs, reddit_lists, dev, run, gi, pos, submission, fs, fs0,
                    master_hash_list, hash_store, decision >>

Fetched == ReachesFetch /\ ~DevAt("fetch_fail", submission, ri)

Duplicate == IsDuplicate(args, hash_store, master_hash_list, CurRes.hash)

Decide(act, done) ==
    [s |-> submission, i |-> ri, run |-> run, hash |-> CurRes.hash,
     in_store |-> check_hash_exists(hash_store, CurRes.hash),
     in_run |-> CurRes.hash \in DOMAIN master_hash_list,
     act |-> act, done |-> done]

\* Duplicate with no_dupes: the URL mapping is recorded, nothing is written.
ResDupSkip ==
    /\ Fetched /\ Duplicate /\ DupAction(args) = "skip"
    /\ Return
    /\ url_list' = UrlHashed
    /\ decision' = Decide("skip", TRUE)
    /\ log' = log \o << ResEv("fetch", NoValue, ""), ResEv("dup_skip", NoValue, "") >>
    /\ UNCHANGED << args, attrs, reddit_lists, dev, run, gi, pos, submission, fs, fs0,
                    master_hash_list, hash_store >>

HashedItem == get_hashed_item(args, hash_store, master_hash_list, CurRes.hash)

\* destination.hardlink_to(hashed_item) (hashed_item.link_to(destination) on
\* an older Python) succeeds when the filesystem allows it and the canonical
\* file is there.
LinkPossible == dev.kind # "link_fail" /\ fs[HashedItem].kind # "absent"

\* Duplicate with make_hard_links: the destination becomes a hard link to the
\* canonical file; no index changes but the URL mapping.
ResHardLink_relist ==
    /\ Fetched /\ Duplicate /\ DupAction(args) = "link" /\ LinkPossible
    /\ Return
    /\ fs' = [fs EXCEPT ![CurRes.dest] = LinkFile(fs[HashedItem].hash, HashedItem)]
    /\ url_list' = UrlHashed
    /\ master_hash_list' = master_hash_list_set(master_hash_list, CurRes.hash, CurRes.dest)
    /\ decision' = Decide("link", TRUE)
    /\ log' = log \o << ResEv("fetch", NoValue, ""), ResEv("link", HashedItem, "") >>
    /\ UNCHANGED << args, attrs, reddit_lists, dev, run, gi, pos, submission, fs0,
                    hash_store >>

ResHardLink ==
    /\ Fetched /\ Duplicate /\ DupAction(args) = "link" /\ LinkPossible
    /\ Return
    /\ fs' = [fs EXCEPT ![CurRes.dest] = LinkFile(fs[HashedItem].hash, HashedItem)]
    /\ url_list' = UrlHashed
    /\ decision' = Decide("link", TRUE)
    /\ log' = log \o << ResEv("fetch", NoValue, ""), ResEv("link", HashedItem, "") >>
    /\ UNCHANGED << args, attrs, reddit_lists, dev, run, gi, pos, submission, fs0,
                    master_hash_list, hash_store >>

\* The link call raises OSError: only AttributeError is handled there, so the
\* error leaves _download_submission and passes both PRAW handlers.
ResHardLinkFail ==
    /\ Fetched /\ Duplicate /\ DupAction(args) = "link" /\ ~LinkPossible
    /\ pc' = "uncaught" /\ ri' = 0
    /\ url_list' = UrlHashed
    /\ decision' = Decide("link", FALSE)
    /\ log' = log \o << ResEv("fetch", NoValue, ""), ResEv("link_fail", HashedItem, ""),
                        ResEv("raise", NoValue, "link_oserror") >>
    /\ UNCHANGED << args, attrs, reddit_lists, dev, run, gi, pos, submission, fs, fs0,
                    master_hash_list, hash_store >>

\* Control reaches the write: the hash is new, or it is a duplicate and
\* neither no_dupes nor make_hard_links is set.
ReachesWrite == Fetched /\ (~Duplicate \/ DupAction(args) = "write")

WriteFails ==
    \/ DevAt("write_fail_nofile", submission, ri)
    \/ DevAt("write_fail_partial", submission, ri)

\* The bytes are written, the times are set and the hash and the URL are
\* recorded; the loop goes on with the next pair.
ResWrite ==
    /\ ReachesWrite /\ ~WriteFails
    /\ Continue
    /\ fs' = [fs EXCEPT ![CurRes.dest] = FullFile(CurRes.hash)]
    /\ IF KeepMode(args)
       THEN /\ hash_store' = hash_add(hash_store, CurRes.dest, CurRes.hash)
            /\ UNCHANGED master_hash_list
       ELSE /\ master_hash_list' = master_hash_list_set(master_hash_list, CurRes.hash, CurRes.dest)
            /\ UNCHANGED hash_store
    /\ url_list' = UrlHashed
    /\ decision' = Decide("write", TRUE)
    /\ log' = log \o << ResEv("fetch", NoValue, ""), ResEv("write", NoValue, "") >>
    /\ UNCHANGED << args, attrs, reddit_lists, dev, run, gi, pos, submission, fs0 >>

\* A variant that records the hash although the write failed.
ResWriteFail_records_hash ==
    /\ ReachesWrite /\ WriteFails
    /\ Return
    /\ fs' = IF DevAt("write_fail_partial", submission, ri)
             THEN [fs EXCEPT ![CurRes.dest] = PartialFile]
             ELSE fs
    /\ url_list' = IF Duplicate THEN UrlHashed ELSE UrlSeen
    /\ master_hash_list' = master_hash_list_set(master_hash_list, CurRes.hash, CurRes.dest)
    /\ decision' = Decide("write", FALSE)
    /\ log' = log \o << ResEv("fetch", NoValue, ""), ResEv("write_fail", NoValue, "") >>
    /\ UNCHANGED << args, attrs, reddit_lists, dev, run, gi, pos, submission, fs0,
                    hash_store >>

\* open() or write() raises OSError: logged, return.  open("wb") may already
\* have created the file, which then holds only part of the bytes.
ResWriteFail ==
    /\ ReachesWrite /\ WriteFails
    /\ Return
    /\ fs' = IF DevAt("write_fail_partial", submission, ri)
             THEN [fs EXCEPT ![CurRes.dest] = PartialFile]
             ELSE fs
    /\ url_list' = IF Duplicate THEN UrlHashed ELSE UrlSeen
    /\ decision' = Decide("write", FALSE)
    /\ log' = log \o << ResEv("fetch", NoValue, ""), ResEv("write_fail", NoValue, "") >>
    /\ UNCHANGED << args, attrs, reddit_lists, dev, run, gi, pos, submission, fs0,
                    master_hash_list, hash_store >>

\* ------------------------------------------------------------ second run
\* download() is called again on the same sequences and the same files: the
\* in-run indexes start over, the persisted store is what the first run left.
Restart ==
    /\ pc = "done" /\ run = 1
    /\ run' = 2
    /\ pc' = "next_gen"
    /\ gi' = 0 /\ pos' = 0 /\ submission' = NoValue /\ ri' = 0
    /\ master_hash_list' = IF dev.kind = "list_loaded" THEN (1 :> OldPath) ELSE EmptyMap
    /\ url_list' = EmptyMap
    /\ fs0' = fs
    /\ decision' = NoDecision
    /\ UNCHANGED << args, attrs, reddit_lists, dev, fs, hash_store, log >>

\* ---------------------------------------------------------- specifications
Next ==
    \/ NextGen \/ PullSubmission \/ PullStop \/ PullPrawError \/ PullOtherError
    \/ SequenceErrorHandler \/ UncaughtHandler \/ HashListSave
    \/ ProcessRaisesPraw \/ ProcessRaisesOther \/ ProcessSkip
    \/ ProcessUnresolved \/ ProcessEnumerate
    \/ ResExists \/ ResFiltered \/ ResUrlSeen \/ ResFetchFail
    \/ ResDupSkip \/ ResHardLink \/ ResHardLinkFail \/ ResWrite \/ ResWriteFail

Spec == Init /\ [][Next]_vars

\* download() runs to its end: no step of it waits on another process.
FairSpec == Init /\ [][Next]_vars /\ WF_vars(Next)

NextTwoRuns == Next \/ Restart

SpecTwoRuns == Init /\ [][NextTwoRuns]_vars

\* ------------------------------------------------- the filter chain alone
\* _download_submission() entered with one submission, for every setting of
\* the filters and every value of the attributes they read.
Opt(S) == { None } \cup { Some(v) : v \in S }

Scores == (0 - MaxScore) .. MaxScore

FilterSettings ==
    [excluded_submission_ids : { {}, { 1 } },
     skip_subreddit : { {}, { "pics" } },
     ignore_user : { {}, { "alice" }, { "DELETED" } },
     min_score : Opt(Scores), max_score : Opt(Scores),
     min_score_ratio : { None, Some(50) }, max_score_ratio : { None, Some(90) }]

SubmissionSpace ==
    [id : { 1 }, subreddit : { "Pics", "News" }, author : { "alice", NoAuthor },
     score : Scores, upvote_ratio : { 40, 70, 95 }, is_submission : BOOLEAN,
     url_ok : BOOLEAN, url : { "x", "" }]

NoFlags == [keep_hashes |-> FALSE, keep_hashes_db |-> FALSE,
            no_dupes |-> FALSE, make_hard_links |-> FALSE]

InitFilter ==
    /\ args \in { NoFlags @@ f : f \in FilterSettings }
    /\ attrs \in { [s \in Subs |-> IF s = 1 THEN a ELSE PlainSubmission(s)] :
                      a \in SubmissionSpace }
    /\ reddit_lists = [g \in 1 .. MaxGens |-> IF g = 1 THEN << SubItem(1) >> ELSE << >>]
    /\ dev = NoDev
    /\ pc = "process"
    /\ run = 1
    /\ gi = 1
    /\ pos = 1
    /\ submission = 1
    /\ ri = 0
    /\ fs = InitFs
    /\ fs0 = fs
    /\ InitIndexes
    /\ decision = NoDecision
    /\ log = << >>

NextFilter == ProcessSkip \/ ProcessEnumerate

SpecFilter == InitFilter /\ [][NextFilter]_vars

\* ================================================================ claims
Events == DOMAIN log

IsOp(k, op) == log[k].op = op

SameRes(j, k) == log[j].s = log[k].s /\ log[j].i = log[k].i /\ log[j].run = log[k].run

SameHash(j, k) == log[j].hash = log[k].hash /\ log[j].run = log[k].run

ResourceOps == { "exists", "res_filtered", "url_seen", "fetch", "fetch_fail",
                 "dup_skip", "link", "link_fail", "write", "write_fail" }

\* Submission s was passed to _download_submission in run r, after event k.
ProcessedAfter(s, r, k) ==
    \E m \in Events : m > k /\ IsOp(m, "process") /\ log[m].s = s /\ log[m].run = r

TimesProcessed(s, r) ==
    Cardinality({ m \in Events : IsOp(m, "process") /\ log[m].s = s /\ log[m].run = r })

\* The position of submission s in generator g (0: not there).
PosIn(g, s) ==
    IF \E q \in DOMAIN reddit_lists[g] : reddit_lists[g][q] = SubItem(s)
    THEN CHOOSE q \in DOMAIN reddit_lists[g] : reddit_lists[g][q] = SubItem(s)
    ELSE 0

\* The submissions generator g holds after position q.
SubsAfter(g, q) ==
    { reddit_lists[g][x].id :
        x \in { y \in DOMAIN reddit_lists[g] : y > q /\ reddit_lists[g][y].kind = "sub" } }

\* After event k (about submission log[k].s) the inner loop went on: the
\* submission next in the same generator, if any, was processed.
NextSubmissionProcessed(k) ==
    LET g == log[k].gen
        q == PosIn(g, log[k].s)
    IN  (q < Len(reddit_lists[g]) /\ reddit_lists[g][q + 1].kind = "sub")
            => ProcessedAfter(reddit_lists[g][q + 1].id, log[k].run, k)

\* After event k the run went on: every submission that follows log[k].s in
\* its generator or sits in a later generator was processed.
FollowingProcessed(k) ==
    LET g == log[k].gen
        q == PosIn(g, log[k].s)
    IN  /\ \A s \in SubsAfter(g, q) : ProcessedAfter(s, log[k].run, k)
        /\ \A g2 \in DOMAIN reddit_lists :
               g2 > g => \A s \in SubsAfter(g2, 0) : ProcessedAfter(s, log[k].run, k)

HasNextSubmission(k) ==
    LET g == log[k].gen
        q == PosIn(g, log[k].s)
    IN  q < Len(reddit_lists[g]) /\ reddit_lists[g][q + 1].kind = "sub"

\* ------------------------------------------------------------------- C1
\* C1: in a run with no_dupes, no two writes carry the same content hash,
\* and every resource fetched after a write of the same hash is skipped as a
\* duplicate, its bytes not written.
C1_OneWritePerHash ==
    args.no_dupes =>
        /\ \A j, k \in Events :
               (j < k /\ IsOp(j, "write") /\ IsOp(k, "write")) => ~SameHash(j, k)
        /\ \A j, k \in Events :
               (j < k /\ IsOp(j, "write") /\ IsOp(k, "fetch") /\ SameHash(j, k))
                   => /\ k < Len(log)
                      /\ IsOp(k + 1, "dup_skip")
                      /\ fs[log[k].dest].kind = "absent"

C1_Witness ==
    /\ args.no_dupes
    /\ \E j, k \in Events :
           /\ j < k /\ IsOp(j, "write") /\ IsOp(k, "dup_skip") /\ SameHash(j, k)
           /\ log[j].dest # log[k].dest

C3_ResumesSameSequence ==
    pc = "done" =>
        /\ \A k \in Events :
               (IsOp(k, "pull_praw_error")
                /\ \E m \in Events : m > k /\ IsOp(m, "sleep") /\ log[m].gen = log[k].gen)
                   => \A s \in SubsAfter(log[k].gen, log[k].i) :
                          TimesProcessed(s, log[k].run) = 1
        /\ \A s \in Subs : TimesProcessed(s, run) <= 1

\* ------------------------------------------------------------------- C4
\* C4 as stated: a PRAW error on a pull, wherever it falls, is logged and
\* followed by the cooldown, and every submission of every later generator
\* is processed.
C4_LaterSequencesIterated ==
    pc = "done" =>
        \A k \in Events :
            IsOp(k, "pull_praw_error")
                => /\ \E m \in Events :
                          /\ m > k /\ IsOp(m, "log_sequence_error")
                          /\ m < Len(log) /\ IsOp(m + 1, "sleep")
                          /\ log[m + 1].target = Cooldown
                   /\ \A g \in DOMAIN reddit_lists :
                          g > log[k].gen
                              => \A s \in SubsAfter(g, 0) : TimesProcessed(s, log[k].run) = 1

\* ------------------------------------------------------------------- C5
Saves == { k \in Events : IsOp(k, "save") }

SaveDiscipline ==
    IF pc = "done"
    THEN Cardinality(Saves) = 1 /\ IsOp(Len(log), "save")
    ELSE Saves = {}

\* C5: download() terminates, and when it has ended the hash-index save has
\* run exactly once, as the last event of the run; before that, never.
C5_TerminatesWithOneSave == <>(pc = "done") /\ []SaveDiscipline

C5_Witness ==
    /\ pc = "done"
    /\ \E k \in Events : IsOp(k, "log_uncaught") /\ k + 1 = Len(log)
    /\ \E k \in Events : IsOp(k, "process")
    /\ Cardinality(Saves) = 1

\* ------------------------------------------------------------------- C6
\* C6: after a failed fetch no later resource of that submission is touched
\* and the failed resource's destination stays absent; no cooldown, no
\* exception follows, and once the run has ended the next submission of the
\* same generator has been processed.
C6_FetchFailureEndsSubmissionOnly ==
    \A k \in Events :
        IsOp(k, "fetch_fail") =>
            /\ \A m \in Events :
                   m > k => /\ ~(log[m].s = log[k].s /\ log[m].run = log[k].run
                                 /\ log[m].op \in ResourceOps)
                            /\ log[m].op \notin { "sleep", "raise", "log_uncaught",
                                                  "log_sequence_error" }
            /\ fs[log[k].dest].kind = "absent"
            /\ (pc = "done" => NextSubmissionProcessed(k))

C6_Witness ==
    /\ pc = "done"
    /\ \E k \in Events :
           /\ IsOp(k, "fetch_fail")
           /\ log[k].i < Len(format_resource_paths(log[k].s))
           /\ HasNextSubmission(k)
           /\ NextSubmissionProcessed(k)

\* ------------------------------------------------------------------- C7
\* C7 as stated: a failed write skips that resource only: its hash is not
\* recorded, the later resources of the submission are still handled, and
\* the following submissions are processed.
C7_WriteFailureSkipsOnlyResource ==
    pc = "done" =>
        \A k \in Events :
            IsOp(k, "write_fail") =>
                /\ \A h \in DOMAIN master_hash_list : master_hash_list[h] # log[k].dest
                /\ \A h \in DOMAIN hash_store : hash_store[h] # log[k].dest
                /\ log[k].i < Len(format_resource_paths(log[k].s))
                       => \E m \in Events :
                              /\ m > k /\ log[m].s = log[k].s /\ log[m].i = log[k].i + 1
                              /\ log[m].op \in ResourceOps
                /\ FollowingProcessed(k)

\* ------------------------------------------------------------------- C8
\* C8 as stated: when the hard link cannot be made, the destination gets a
\* full copy of the bytes and the run loop goes on with the next submission.
C8_LinkFailureFallsBackToCopy ==
    pc = "done" =>
        \A k \in Events :
            IsOp(k, "link_fail") =>
                /\ fs[log[k].dest] = FullFile(log[k].hash)
                /\ FollowingProcessed(k)

\* ------------------------------------------------------------------- C9
FirstWrite(k) ==
    { j \in Events :
        /\ j < k /\ IsOp(j, "write") /\ SameHash(j, k)
        /\ \A x \in Events : (x < j /\ IsOp(x, "write")) => ~SameHash(x, k) }

\* C9: with make_hard_links and without no_dupes, every resource fetched
\* after a write of the same hash is linked, not written; every link made
\* points at the first destination written for that hash in the run (at the
\* file the persisted store named, when the run has written none), the
\* destination is a link to it, and no bytes are written for it.
C9_LinksTargetFirstWritten ==
    (args.make_hard_links /\ ~args.no_dupes) =>
        /\ \A k \in Events :
               IsOp(k, "link") =>
                   /\ \A j \in FirstWrite(k) : log[k].target = log[j].dest
                   /\ FirstWrite(k) = {} => log[k].target = OldPath
                   /\ fs[log[k].dest] = LinkFile(log[k].hash, log[k].target)
                   /\ \A m \in Events : IsOp(m, "write") => ~SameRes(m, k)
        /\ \A j, k \in Events :
               (j < k /\ IsOp(j, "write") /\ IsOp(k, "fetch") /\ SameHash(j, k))
                   => /\ k < Len(log)
                      /\ log[k + 1].op \in { "link", "link_fail" }

C9_Witness ==
    /\ args.make_hard_links /\ ~args.no_dupes
    /\ \E j, k, m \in Events :
           /\ j < k /\ k < m
           /\ IsOp(j, "write") /\ IsOp(k, "link") /\ IsOp(m, "link")
           /\ SameHash(j, k) /\ SameHash(j, m)
           /\ log[m].target = log[j].dest
           /\ log[k].dest # log[j].dest

\* ------------------------------------------------------------------ C10
DecidedRes == format_resource_paths(decision.s)[decision.i]

\* The decision table: the action for a fetched resource, given whether its
\* hash counts as recorded.
TableAction(known, no_dupes, make_hard_links) ==
    CASE known /\ no_dupes                      -> "skip"
      [] known /\ ~no_dupes /\ make_hard_links  -> "link"
      [] known /\ ~no_dupes /\ ~make_hard_links -> "write"
      [] ~known                                 -> "write"

\* C10: for every flag combination the action taken for a fetched resource
\* is the table's.  "Recorded" is read from the persisted store when
\* keep_hashes or keep_hashes_db is set and from the in-run index otherwise.
\* A duplicate has its URL mapping recorded; a skip leaves the destination
\* absent; a link made leaves a link; a write done leaves the bytes, and a
\* new hash is then recorded against the destination.
C10_DecisionTable ==
    decision.act # "none" =>
        LET known == IF args.keep_hashes \/ args.keep_hashes_db
                     THEN decision.in_store ELSE decision.in_run
            r == DecidedRes
        IN  /\ decision.act = TableAction(known, args.no_dupes, args.make_hard_links)
            /\ known => (r.url \in DOMAIN url_list /\ url_list[r.url] = r.hash)
            /\ decision.act = "skip" => fs[r.dest].kind = "absent"
            /\ (decision.act = "link" /\ decision.done)
                   => (fs[r.dest].kind = "link" /\ fs[r.dest].hash = r.hash)
            /\ (decision.act = "write" /\ decision.done) => fs[r.dest] = FullFile(r.hash)
            /\ (decision.act = "write" /\ decision.done /\ ~known)
                   => IF args.keep_hashes \/ args.keep_hashes_db
                      THEN hash_store[r.hash] = r.dest
                      ELSE master_hash_list[r.hash] = r.dest

C10_Witness ==
    /\ args.no_dupes /\ args.make_hard_links
    /\ decision.act = "skip"
    /\ decision.in_run /\ ~decision.in_store
\* ---------------------------------------------------------------------
\* C11: a step that processes a submission turned away by the filter chain
\* changes no file and neither index, enters no resource loop (so nothing is
\* resolved, enumerated or fetched) and logs nothing but the skip.
C11_Rejected == pc = "process" /\ ~Raises /\ FilterResult # "pass"

C11_RejectedTouchesNothing ==
    [][C11_Rejected =>
          /\ UNCHANGED << fs, url_list, master_hash_list, hash_store, ri, decision >>
          /\ pc' = "pull"
          /\ Len(log') = Len(log) + 2
          /\ \A k \in DOMAIN log' \ DOMAIN log :
                 /\ log'[k].op \in { "process", "skip" }
                 /\ log'[k].s = submission]_vars

\* An excluded submission was skipped and a later one was still written.
C11_Witness ==
    \E k \in Events : \E j \in Events :
        /\ IsOp(k, "skip") /\ log[k].cause = "excluded_id"
        /\ j > k /\ IsOp(j, "write") /\ log[j].run = log[k].run

\* ---------------------------------------------------------------------
\* The submission passes the id, subreddit and author checks.
PassesIdentityChecks(a, sub) ==
    /\ sub.id \notin a.excluded_submission_ids
    /\ Lower(sub.subreddit) \notin a.skip_subreddit
    /\ IF sub.author = NoAuthor THEN "DELETED" \notin a.ignore_user
       ELSE sub.author \notin a.ignore_user

BelowMin(a, sub) == a.min_score.set /\ sub.score < a.min_score.val

AboveMax(a, sub) == a.max_score.set /\ sub.score > a.max_score.val

SkippedFor(causes) == \E k \in Events : IsOp(k, "skip") /\ log[k].cause \in causes

\* C12: for every configured minimum m and maximum M, 0 and negative values
\* included, a submission that passes the id, subreddit and author checks is
\* skipped (the resource loop is not entered) when its score is below m or
\* above M, and is not skipped by a score check when its score is within the
\* configured bounds.
C12_ScoreBoundsDecide ==
    pc # "process" =>
        LET sub == SubmissionOf(submission) IN
        PassesIdentityChecks(args, sub) =>
            /\ (BelowMin(args, sub) \/ AboveMax(args, sub)) =>
                   pc = "pull" /\ \E k \in Events : IsOp(k, "skip")
            /\ ~(BelowMin(args, sub) \/ AboveMax(args, sub)) =>
                   ~SkippedFor({ "min_score", "max_score" })

\* ---------------------------------------------------------------------
\* C13: in every reachable state each destination path is absent or holds
\* the complete bytes of a resource destined for it (as a file or as a hard
\* link); no path holds only part of a resource's bytes.
C13_NoPartialFile ==
    \A p \in Paths :
        \/ fs[p].kind = "absent"
        \/ p = OldPath /\ fs[p] = FullFile(1)
        \/ /\ fs[p].kind \in { "file", "link" }
           /\ \E sl \in Slots :
                  /\ format_resource_paths(sl[1])[sl[2]].dest = p
                  /\ format_resource_paths(sl[1])[sl[2]].hash = fs[p].hash

\* ---------------------------------------------------------------------
\* C14: during a run the in-run hash index is append-only under every
\* setting of no_dupes and make_hard_links: a step of the run keeps every
\* key and keeps the destination each key maps to.
C14_HashIndexAppendOnly ==
    [][run' = run =>
          \A h \in DOMAIN master_hash_list :
              /\ h \in DOMAIN master_hash_list'
              /\ master_hash_list'[h] = master_hash_list[h]]_vars

\* ---------------------------------------------------------------------
\* The events a step appends to the log.
NewEvents == { k \in DOMAIN log' : k > Len(log) }

\* C15: a resource whose destination exists when the loop reaches it is
\* passed over (one "exists" event; no file and no index changes); no step
\* changes a path that holds a file; and a fetch, successful or not, is made
\* only when the destination is absent, the resource filter accepts the
\* resource and its URL is not in the UrlIndex, the three tests being made
\* in that order (a filter skip implies an absent destination, a URL skip an
\* absent destination and an accepted resource).
C15_ExistingLeftUntouched ==
    [][/\ \A p \in Paths : fs[p].kind # "absent" => fs'[p] = fs[p]
       /\ (pc = "resource" /\ fs[CurRes.dest].kind # "absent") =>
              /\ UNCHANGED << fs, url_list, master_hash_list, hash_store >>
              /\ Len(log') = Len(log) + 1
              /\ log'[Len(log')].op = "exists"
       /\ \A k \in NewEvents :
              /\ log'[k].op \in { "fetch", "fetch_fail" } =>
                     /\ pc = "resource"
                     /\ fs[CurRes.dest].kind = "absent"
                     /\ check_resource
                     /\ CurRes.url \notin DOMAIN url_list
              /\ log'[k].op = "res_filtered" => fs[CurRes.dest].kind = "absent"
              /\ log'[k].op = "url_seen" =>
                     fs[CurRes.dest].kind = "absent" /\ check_resource]_vars

\* The second run passes over a file the first run wrote, and fetches another
\* resource.
C15_Witness ==
    \E k \in Events : \E j \in Events : \E w \in Events :
        /\ IsOp(w, "write") /\ log[w].run = 1
        /\ IsOp(k, "exists") /\ log[k].run = 2 /\ log[k].dest = log[w].dest
        /\ IsOp(j, "fetch") /\ log[j].run = 2

\* ---------------------------------------------------------------------
\* C16: a PRAW error raised by the processing of a submission is logged and
\* nothing else: no cooldown, no sequence-error message and no exception
\* follows it, and once the run has ended every submission after it, the
\* next one of the same generator first, has been processed.  An error of
\* another kind raised by the processing ends the loop: no submission is
\* processed after it and it reaches the handler of last resort.
C16_ProcessingErrorContained ==
    /\ \A k \in Events :
           IsOp(k, "log_submission_error") =>
               /\ \A m \in Events :
                      m > k => log[m].op \notin { "sleep", "raise", "log_uncaught",
                                                  "log_sequence_error" }
               /\ (pc = "done" => NextSubmissionProcessed(k) /\ FollowingProcessed(k))
    /\ \A k \in Events :
           (IsOp(k, "raise") /\ log[k].cause \in { "processing_error", "link_oserror" }) =>
               /\ \A m \in Events : m > k => ~(IsOp(m, "process") /\ log[m].run = log[k].run)
               /\ (pc = "done" => \E m \in Events : m > k /\ IsOp(m, "log_uncaught"))

C16_Witness ==
    /\ pc = "done"
    /\ \E k \in Events :
           /\ IsOp(k, "log_submission_error")
           /\ HasNextSubmission(k)
           /\ NextSubmissionProcessed(k)
           /\ \E m \in Events : m > k /\ IsOp(m, "write") /\ log[m].gen = log[k].gen

\* ---------------------------------------------------------------------
\* The checks of the filter chain in their stated order, each by what it
\* tests, and the reason a skip by it is logged with.
CheckNames ==
    << "excluded_id", "skip_subreddit", "ignored_user", "min_score", "max_score",
       "score_ratio", "url_filter", "empty_url" >>

CheckFails(n, a, sub) ==
    CASE n = 1 -> sub.id \in a.excluded_submission_ids
      [] n = 2 -> Lower(sub.subreddit) \in a.skip_subreddit
      [] n = 3 -> IF sub.author = NoAuthor THEN "DELETED" \in a.ignore_user
                  ELSE sub.author \in a.ignore_user
      [] n = 4 -> BelowMin(a, sub)
      [] n = 5 -> AboveMax(a, sub)
      [] n = 6 -> \/ a.min_score_ratio.set /\ sub.upvote_ratio < a.min_score_ratio.val
                  \/ a.max_score_ratio.set /\ sub.upvote_ratio > a.max_score_ratio.val
      [] n = 7 -> ~sub.url_ok
      [] n = 8 -> sub.url = ""

FailingChecks(a, sub) == { n \in DOMAIN CheckNames : CheckFails(n, a, sub) }

EarliestFailing(a, sub) ==
    CHOOSE n \in FailingChecks(a, sub) : \A m \in FailingChecks(a, sub) : n <= m

\* C17: for a submission, the skip is attributed to the earliest failing
\* check in the order excluded id, subreddit, author, minimum score, maximum
\* score, ratio bounds, URL filter, empty URL; a skip by the URL filter
\* implies that every check before it passed; with no failing check the
\* submission is not skipped.
C17_EarliestFailingCheck ==
    (pc # "process" /\ SubmissionOf(submission).is_submission) =>
        LET sub == SubmissionOf(submission) IN
        IF FailingChecks(args, sub) = {}
        THEN pc = "resource"
        ELSE /\ pc = "pull"
             /\ SkippedFor({ CheckNames[EarliestFailing(args, sub)] })
             /\ SkippedFor({ "url_filter" }) =>
                    \A n \in 1 .. 6 : ~CheckFails(n, args, sub)

\* ---------------------------------------------------------------------
\* The URL of the resource an event is about (none for a submission event).
UrlOf(k) ==
    IF log[k].i = 0 THEN NoValue ELSE format_resource_paths(log[k].s)[log[k].i].url

FetchAttempt(k) == log[k].op \in { "fetch", "fetch_fail" }

\* C18: within one run no two fetch attempts, successful or failed, are made
\* for the same URL, and the URL of every attempt of the current run is in
\* the UrlIndex, whatever became of the fetch and of the write after it.
C18_FetchAtMostOncePerUrl ==
    /\ \A j, k \in Events :
           (j < k /\ FetchAttempt(j) /\ FetchAttempt(k) /\ log[j].run = log[k].run)
               => UrlOf(j) # UrlOf(k)
    /\ \A k \in Events :
           (FetchAttempt(k) /\ log[k].run = run) => UrlOf(k) \in DOMAIN url_list

\* A fetch failed, and a later submission's resource with the same URL was
\* turned away by the URL lookup.
C18_Witness ==
    \E j, k \in Events :
        /\ j < k /\ IsOp(j, "fetch_fail") /\ IsOp(k, "url_seen")
        /\ log[j].run = log[k].run /\ log[j].s # log[k].s
        /\ UrlOf(j) = UrlOf(k)

\* ---------------------------------------------------------------------
\* C19: a resource is turned away by the URL lookup only if a resource with
\* the same URL was handled successfully earlier in the same run: fetched
\* and then written, hard-linked or recognised as a duplicate.
C19_UrlSkipOnlyAfterSuccess ==
    \A k \in Events :
        IsOp(k, "url_seen") =>
            \E j \in Events :
                /\ j < k /\ log[j].run = log[k].run /\ UrlOf(j) = UrlOf(k)
                /\ log[j].op \in { "write", "link", "dup_skip" }

\* ---------------------------------------------------------------------
\* C20: in in-run mode every entry hash -> path of the hash index is sound:
\* the path holds a complete file of that hash, a write of this run put it
\* there, and the path is not that of a resource that was passed over,
\* hard-linked, skipped as a duplicate, or whose fetch or write failed.
C20_HashIndexSound ==
    ~KeepMode(args) =>
        \A h \in DOMAIN master_hash_list :
            LET p == master_hash_list[h] IN
            /\ fs[p] = FullFile(h)
            /\ \E k \in Events :
                   /\ IsOp(k, "write") /\ log[k].run = run
                   /\ log[k].dest = p /\ log[k].hash = h
            /\ \A k \in Events :
                   (log[k].run = run /\ log[k].dest = p) =>
                       log[k].op \in { "fetch", "write" }

\* In-run mode: one write failed, and the run ended with the hashes of two
\* later writes recorded.
C20_Witness ==
    /\ ~KeepMode(args)
    /\ pc = "done"
    /\ Cardinality(DOMAIN master_hash_list) = 2
    /\ \E k \in Events : IsOp(k, "write_fail")

====
